---- MODULE Spec2Model ----
(***************************************************************************)
(* Model of the training driver wsl/run/train.py (function main) and of   *)
(* the import-time mount check of wsl/locations.py.                        *)
(*                                                                         *)
(* One process runs main() from top to bottom.  pc is its position.  The   *)
(* external collaborators (Loader, Architecture, engine, torch.save,       *)
(* matplotlib) are modelled by their effect on the driver's state: the     *)
(* engine returns a (loss, rmetric) pair or raises, torch.save stores a    *)
(* copy of the checkpoint dict in a file of the run directory.             *)
(*                                                                         *)
(* Losses and metrics are floats in the program; the driver only compares  *)
(* and stores them, so they are modelled as integers.                      *)
(***************************************************************************)
EXTENDS Integers, Sequences, FiniteSets, TLC

(***************************************************************************)
(* Bounds of the model.                                                    *)
(***************************************************************************)
\* Epochs 1..MaxFree draw the engine's evaluation result freely.
MaxFree == 2
\* patience ranges over -1..MaxPatience.
MaxPatience == 1
\* Number of process runs sharing one disk (a run and its restarts).
MaxRuns == 2

(***************************************************************************)
(* Program constants.                                                      *)
(***************************************************************************)
\* train.py:147  "checkpoint['epoch'] < 500"
EpochCap == 500

(***************************************************************************)
(* Input domains.                                                          *)
(***************************************************************************)
Patiences == -1..MaxPatience
Optims == {"sgd", "adam", "rmsprop"}
\* Evaluation losses the engine may return in a free epoch: below, equal to
\* and above the initial loss 100 of a fresh checkpoint.
EvalLosses == {40, 50, 100, 150}
EvalMetrics == {0, 1}
\* A schedule fixes what the engine returns after the free epochs:
\* descend = 0: every later evaluation returns the plateau loss;
\* descend = d > 0: the evaluation loss of epoch e <= d is 100 - e (strictly
\* improving in every epoch), and the plateau loss after d.
Descends == {0, EpochCap - 1, EpochCap}

VARIABLES
    \* inputs of the run (arguments of main and the environment)
    debug, resume, patience, optim, mountExists, nmatch, descend,
    \* the arguments of main that only the run name reads
    nameArgs, response, now,
    \* control
    pc, error, exit, runNo,
    \* locals of main
    checkpoint, best_epoch, best_loss, configs, full_mname,
    \* files of the run directory
    dirExists, current_pt, best_pt, summary_txt, savefig_calls, configs_json

inputs == <<debug, resume, patience, optim, mountExists, nmatch, descend,
           nameArgs, response, now>>
control == <<pc, error, exit, runNo>>
locals == <<checkpoint, best_epoch, best_loss, configs, full_mname>>
disk == <<dirExists, current_pt, best_pt, summary_txt, savefig_calls, configs_json>>
vars == <<inputs, control, locals, disk>>

(***************************************************************************)
(* Pure helpers.                                                           *)
(***************************************************************************)
Min2(a, b) == IF a <= b THEN a ELSE b

RECURSIVE MinOf(_)
\* min(s) of a non-empty sequence
MinOf(s) == IF Len(s) = 1 THEN s[1] ELSE Min2(s[Len(s)], MinOf(SubSeq(s, 1, Len(s) - 1)))

\* Mutant of PyIndexOk: only indices 0..len-1 are accepted.
PyIndexOkNonNegative(s, i) == 0 <= i /\ i < Len(s)

\* Python list indexing s[i]: a negative index counts from the end; an index
\* outside -len..len-1 raises IndexError.
PyIndexOk(s, i) == (0 - Len(s)) <= i /\ i < Len(s)
PyIndex(s, i) == IF i >= 0 THEN s[i + 1] ELSE s[Len(s) + i + 1]

\* The checkpoint dict before line 110/130 binds it (placeholder).
Unbound == [epoch |-> 0, loss |-> 0,
            train_loss_all |-> <<>>, test_loss_all |-> <<>>,
            train_rmetric_all |-> <<>>, test_rmetric_all |-> <<>>]

\* train.py:130-140, the fresh checkpoint dict (model/optimizer/criterion
\* objects are opaque to the driver and left out).
FreshCheckpoint == [epoch |-> 0, loss |-> 100,
                    train_loss_all |-> <<>>, test_loss_all |-> <<>>,
                    train_rmetric_all |-> <<>>, test_rmetric_all |-> <<>>]

\* Mutant of OptimSupported: every optimizer name is accepted.
OptimAny(o) == TRUE

\* train.py:123-128
OptimSupported(o) == o = "sgd" \/ o = "adam"

\* Mutants of Continue: the patience test is missing; the patience window
\* is one epoch wider; the epoch cap is missing.
ContinueNoPatience(cp, be, pat) == cp.epoch < EpochCap
ContinueLax(cp, be, pat) == (cp.epoch - be <= pat + 1) /\ cp.epoch < EpochCap
ContinueNoCap(cp, be, pat) == cp.epoch - be <= pat

\* Mutant of Continue: strict comparison with patience.
ContinueStrict(cp, be, pat) == (cp.epoch - be < pat) /\ cp.epoch < EpochCap

\* train.py:147, the while condition
Continue(cp, be, pat) == (cp.epoch - be <= pat) /\ cp.epoch < EpochCap

\* train.py:149
BeginEpoch(cp) == [cp EXCEPT !.epoch = @ + 1]

\* Mutant of RecordTrain: the training metric is not appended.
RecordTrainNoMetric(cp, r) ==
    [cp EXCEPT !.loss = r.loss,
               !.train_loss_all = Append(@, r.loss)]

\* train.py:152-155
RecordTrain(cp, r) ==
    [cp EXCEPT !.loss = r.loss,
               !.train_loss_all = Append(@, r.loss),
               !.train_rmetric_all = Append(@, r.rmetric)]

\* Mutant of RecordTest: checkpoint['loss'] keeps the training loss.
RecordTestKeepLoss(cp, r) ==
    [cp EXCEPT !.test_loss_all = Append(@, r.loss),
               !.test_rmetric_all = Append(@, r.rmetric)]

\* train.py:159-162
RecordTest(cp, r) ==
    [cp EXCEPT !.loss = r.loss,
               !.test_loss_all = Append(@, r.loss),
               !.test_rmetric_all = Append(@, r.rmetric)]

\* Mutants of Improved: every epoch counts as an improvement; an equal loss
\* counts as an improvement.
ImprovedAlways(bl, cp) == TRUE
ImprovedOrEqual(bl, cp) == bl >= cp.loss

\* train.py:167
Improved(bl, cp) == bl > cp.loss

\* Mutant of BreakTaken: the break is never taken.
BreakNever(d) == FALSE

\* train.py:197, the debug test that guards the break
BreakTaken(d) == d

\* Mutant of AfterBreak: the break ends main() like a return.
AfterBreakReturn == "done"

\* train.py:200-202, the statement control reaches after the break
AfterBreak == "configs"

(***************************************************************************)
(* The run name (train.py:58-65).  A text is a sequence of atoms: the      *)
(* words and separators the tags are made of, and opaque pieces of text.   *)
(* Concatenation of texts is concatenation of sequences, and one text      *)
(* contains another iff the sequence has it as a contiguous subsequence.   *)
(***************************************************************************)
\* The formatted values of lr, batchsize, depth, maps, alpha and k.
LrText == <<"0.001">>
BatchsizeText == <<"64">>
DepthText == <<"18">>
MapsText == <<"4">>
AlphaText == <<"0.7">>
KText == <<"5">>

Datas == {<<"chest">>, <<"debug">>}
ColNames == {<<"label">>, <<"bal">>, <<"age", "_", "pre">>}
Networks == {<<"resnet">>, <<"wildcat">>}
NameArgs ==
    [pretrained : BOOLEAN, balanced : BOOLEAN, wildcat : BOOLEAN,
     data : Datas, col_name : ColNames, network : Networks]
PlainNameArgs ==
    [pretrained |-> FALSE, balanced |-> FALSE, wildcat |-> FALSE,
     data |-> <<"chest">>, col_name |-> <<"label">>, network |-> <<"resnet">>]

\* train.py:51, what requests.get may do: raise, or return a response with
\* a status code and a body; json_ok says whether the body parses, json is
\* the parsed list of words.
Words == {<<"word">>, <<"pre", "fix">>}
Responses ==
    {[raised |-> FALSE, status_code |-> 200, json_ok |-> TRUE, json |-> <<w>>] :
        w \in Words}
    \cup {[raised |-> FALSE, status_code |-> 200, json_ok |-> TRUE, json |-> <<>>],
          [raised |-> FALSE, status_code |-> 200, json_ok |-> FALSE, json |-> <<>>],
          [raised |-> FALSE, status_code |-> 500, json_ok |-> FALSE, json |-> <<>>],
          [raised |-> TRUE, status_code |-> 0, json_ok |-> FALSE, json |-> <<>>]}
PlainResponse ==
    [raised |-> FALSE, status_code |-> 200, json_ok |-> TRUE, json |-> << <<"word">> >>]

\* train.py:56, what datetime.datetime.now() may return
Nows ==
    {[day |-> 29, month |-> 10, hour |-> 5, minute |-> 35, second |-> 46],
     [day |-> 1, month |-> 2, hour |-> 0, minute |-> 0, second |-> 9]}
PlainNow == [day |-> 29, month |-> 10, hour |-> 5, minute |-> 35, second |-> 46]

Digit == <<"0", "1", "2", "3", "4", "5", "6", "7", "8", "9">>
\* A strftime field of width two, zero padded
TwoDigits(n) == <<Digit[(n \div 10) + 1], Digit[(n % 10) + 1]>>
\* train.py:56, strftime('%d_%m_%H_%M_%S')
Strftime(t) ==
    TwoDigits(t.day) \o <<"_">> \o TwoDigits(t.month) \o <<"_">>
    \o TwoDigits(t.hour) \o <<"_">> \o TwoDigits(t.minute) \o <<"_">>
    \o TwoDigits(t.second)

\* train.py:49-56: the first word of the service's answer; the timestamp when
\* the request raises, the status is not 200, the body does not parse or the
\* list is empty.
Mname(r, t) ==
    IF ~r.raised /\ r.status_code = 200 /\ r.json_ok /\ Len(r.json) >= 1
    THEN r.json[1]
    ELSE Strftime(t)

\* The tags of the optional parts, train.py:58, 61, 62, 64
DebugTag == <<"debug", "_">>
PreTag == <<"_", "pre">>
BalTag == <<"_", "bal">>
WildcatTag == <<"_", "wildcat", "_", "maps">> \o MapsText
                 \o <<"_", "alpha">> \o AlphaText \o <<"_", "k">> \o KText

\* Mutant of RunName: the balanced tag is written before the pretrained tag.
RunNameBalFirst(d, o, a, m) ==
    (IF d THEN DebugTag ELSE <<>>)
    \o a.data \o <<"_">> \o a.col_name \o <<"_">>
    \o <<"lr">> \o LrText \o <<"_", "bs">> \o BatchsizeText \o <<"_", o>>
    \o (IF a.balanced THEN BalTag ELSE <<>>)
    \o (IF a.pretrained THEN PreTag ELSE <<>>) \o <<"_">>
    \o a.network \o DepthText
    \o (IF a.wildcat THEN WildcatTag ELSE <<>>) \o <<"_">>
    \o m

\* train.py:58-65, full_mname
RunName(d, o, a, m) ==
    (IF d THEN DebugTag ELSE <<>>)
    \o a.data \o <<"_">> \o a.col_name \o <<"_">>
    \o <<"lr">> \o LrText \o <<"_", "bs">> \o BatchsizeText \o <<"_", o>>
    \o (IF a.pretrained THEN PreTag ELSE <<>>)
    \o (IF a.balanced THEN BalTag ELSE <<>>) \o <<"_">>
    \o a.network \o DepthText
    \o (IF a.wildcat THEN WildcatTag ELSE <<>>) \o <<"_">>
    \o m

(***************************************************************************)
(* The engine (external): what one pass may return.                        *)
(***************************************************************************)
TrainResults(e) == {[loss |-> 70, rmetric |-> 5]}
TestResults(e) ==
    IF descend = 0
    THEN IF e <= MaxFree
         THEN {[loss |-> l, rmetric |-> m] : l \in EvalLosses, m \in EvalMetrics}
         ELSE {[loss |-> 100, rmetric |-> e % 2]}
    ELSE IF e <= descend
         THEN {[loss |-> 100 - e, rmetric |-> e % 2]}
         ELSE {[loss |-> 100, rmetric |-> e % 2]}

(***************************************************************************)
(* Initial state: the process has been started, nothing has run.           *)
(***************************************************************************)
\* Nothing has run: no local is bound, the run directory does not exist.
InitialState ==
    /\ pc = "import"
    /\ error = "none"
    /\ exit = "none"
    /\ runNo = 1
    /\ checkpoint = Unbound
    /\ best_epoch = 0
    /\ best_loss = 0
    /\ configs = <<>>
    /\ full_mname = <<>>
    /\ dirExists = FALSE
    /\ current_pt = <<>>
    /\ best_pt = <<>>
    /\ summary_txt = <<>>
    /\ savefig_calls = 0
    /\ configs_json = <<>>

\* Every run input is free; the name service's answer is free on the short
\* schedules, the schedules of EpochCap epochs run with one answer.
Init ==
    /\ debug \in BOOLEAN
    /\ resume \in BOOLEAN
    /\ patience \in Patiences
    /\ optim \in Optims
    /\ mountExists \in BOOLEAN
    /\ nmatch \in 0..2
    /\ descend \in Descends
    /\ nameArgs = PlainNameArgs
    /\ response \in (IF descend = 0 THEN Responses ELSE {PlainResponse})
    /\ now = PlainNow
    /\ InitialState

\* The initial states of the run-name check: every combination of the
\* arguments the name reads, one setting of the arguments it does not read.
NameInit ==
    /\ debug \in BOOLEAN
    /\ resume \in BOOLEAN
    /\ patience = 0
    /\ optim \in Optims
    /\ mountExists = TRUE
    /\ nmatch = 1
    /\ descend = 0
    /\ nameArgs \in NameArgs
    /\ response \in Responses
    /\ now \in Nows
    /\ InitialState

Fail(e) == pc' = "failed" /\ error' = e

\* Mutant of ImportLocations: the mount is not tested.
ImportLocationsUnchecked ==
    /\ pc = "import"
    /\ pc' = "name"
    /\ UNCHANGED <<inputs, error, exit, runNo, locals, disk>>

\* locations.py:5-11, run by "from wsl.locations import wsl_model_dir" (train.py:9)
ImportLocations ==
    /\ pc = "import"
    /\ IF mountExists
       THEN pc' = "name" /\ error' = error
       ELSE Fail("FileNotFoundError")
    /\ UNCHANGED <<inputs, exit, runNo, locals, disk>>

\* Mutant of ResumeLookup: the lookup takes the first match without testing
\* the number of matches.
ResumeLookupUnchecked ==
    /\ pc = "name"
    /\ resume
    /\ pc' = "loaders"
    /\ UNCHANGED <<inputs, error, exit, runNo, locals, disk>>

\* train.py:45-47, resume branch.  wsl_model_dir is a pathlib.Path, whose
\* glob() returns a generator: len() of it raises TypeError whatever the
\* number of matching directories.
ResumeLookup ==
    /\ pc = "name"
    /\ resume
    /\ Fail("TypeError")
    /\ UNCHANGED <<inputs, exit, runNo, locals, disk>>

\* train.py:48-68, fresh branch: mname is the service's word or, when the
\* service fails, the timestamp; full_mname and model_dir are bound.
FreshName ==
    /\ pc = "name"
    /\ ~resume
    /\ full_mname' = RunName(debug, optim, nameArgs, Mname(response, now))
    /\ pc' = "loaders"
    /\ UNCHANGED <<inputs, error, exit, runNo,
                   checkpoint, best_epoch, best_loss, configs, disk>>

\* train.py:71-105
InitLoaders ==
    /\ pc = "loaders"
    /\ pc' = "optim"
    /\ UNCHANGED <<inputs, error, exit, runNo, locals, disk>>

\* train.py:109-143 on a fresh run (the only kind that gets here): criterion,
\* model, optimizer selection, the checkpoint dict, best_epoch and best_loss.
CreateCheckpoint ==
    /\ pc = "optim"
    /\ ~resume
    /\ IF OptimSupported(optim)
       THEN /\ checkpoint' = FreshCheckpoint
            /\ best_epoch' = FreshCheckpoint.epoch
            /\ best_loss' = FreshCheckpoint.loss
            /\ pc' = "loop"
            /\ error' = error
       ELSE /\ Fail("ValueError")
            /\ UNCHANGED <<checkpoint, best_epoch, best_loss>>
    /\ UNCHANGED <<inputs, exit, runNo, configs, full_mname, disk>>

\* train.py:147, condition true: the body is entered
LoopEnter ==
    /\ pc = "loop"
    /\ Continue(checkpoint, best_epoch, patience)
    /\ pc' = "train"
    /\ UNCHANGED <<inputs, error, exit, runNo, locals, disk>>

\* train.py:147, condition false: control falls out of the loop to line 202
LoopExit ==
    /\ pc = "loop"
    /\ ~Continue(checkpoint, best_epoch, patience)
    /\ pc' = "configs"
    /\ exit' = "cond"
    /\ UNCHANGED <<inputs, error, runNo, locals, disk>>

\* train.py:148-155
TrainPass ==
    /\ pc = "train"
    /\ \E r \in TrainResults(checkpoint.epoch + 1) :
         checkpoint' = RecordTrain(BeginEpoch(checkpoint), r)
    /\ pc' = "test"
    /\ UNCHANGED <<inputs, error, exit, runNo, best_epoch, best_loss, configs,
                   full_mname, disk>>

\* train.py:149-152, the engine raises during the training pass (the epoch
\* counter has already been incremented)
TrainRaise ==
    /\ pc = "train"
    /\ checkpoint' = BeginEpoch(checkpoint)
    /\ Fail("EngineError")
    /\ UNCHANGED <<inputs, exit, runNo, best_epoch, best_loss, configs,
                   full_mname, disk>>

\* train.py:157-162
TestPass ==
    /\ pc = "test"
    /\ \E r \in TestResults(checkpoint.epoch) :
         checkpoint' = RecordTest(checkpoint, r)
    /\ pc' = "save"
    /\ UNCHANGED <<inputs, error, exit, runNo, best_epoch, best_loss, configs,
                   full_mname, disk>>

\* train.py:159, the engine raises during the evaluation pass
TestRaise ==
    /\ pc = "test"
    /\ Fail("EngineError")
    /\ UNCHANGED <<inputs, exit, runNo, locals, disk>>

\* train.py:164-165
SaveCurrent ==
    /\ pc = "save"
    /\ dirExists' = TRUE
    /\ current_pt' = <<checkpoint>>
    /\ pc' = "best"
    /\ UNCHANGED <<inputs, error, exit, runNo, locals,
                   best_pt, summary_txt, savefig_calls, configs_json>>

\* train.py:167-173
UpdateBest ==
    /\ pc = "best"
    /\ IF Improved(best_loss, checkpoint)
       THEN /\ best_loss' = checkpoint.loss
            /\ best_epoch' = checkpoint.epoch
            /\ best_pt' = <<checkpoint>>
       ELSE UNCHANGED <<best_loss, best_epoch, best_pt>>
    /\ pc' = "summary"
    /\ UNCHANGED <<inputs, error, exit, runNo, checkpoint, configs, full_mname,
                   dirExists, current_pt, summary_txt, savefig_calls, configs_json>>

\* train.py:175-195: one block appended to summary.txt, graphs.png rewritten
WriteSummary ==
    /\ pc = "summary"
    /\ summary_txt' = Append(summary_txt, checkpoint.epoch)
    /\ savefig_calls' = savefig_calls + 1
    /\ pc' = "debug"
    /\ UNCHANGED <<inputs, error, exit, runNo, locals,
                   dirExists, current_pt, best_pt, configs_json>>

\* train.py:197-200
DebugBreak ==
    /\ pc = "debug"
    /\ BreakTaken(debug)
    /\ pc' = AfterBreak
    /\ exit' = "break"
    /\ UNCHANGED <<inputs, error, runNo, locals, disk>>

\* train.py:197, debug false: back to the loop head
NextIteration ==
    /\ pc = "debug"
    /\ ~BreakTaken(debug)
    /\ pc' = "loop"
    /\ UNCHANGED <<inputs, error, exit, runNo, locals, disk>>

\* train.py:202-225
BuildConfigs ==
    /\ pc = "configs"
    /\ IF PyIndexOk(checkpoint.test_rmetric_all, best_epoch - 1)
       THEN /\ configs' = <<[best_epoch |-> best_epoch,
                             best_loss |-> best_loss,
                             rmetric |-> PyIndex(checkpoint.test_rmetric_all, best_epoch - 1)]>>
            /\ pc' = "dump"
            /\ error' = error
       ELSE /\ Fail("IndexError")
            /\ UNCHANGED configs
    /\ UNCHANGED <<inputs, exit, runNo, checkpoint, best_epoch, best_loss,
                   full_mname, disk>>

\* train.py:226-228
WriteConfigs ==
    /\ pc = "dump"
    /\ configs_json' = configs
    /\ pc' = "done"
    /\ UNCHANGED <<inputs, error, exit, runNo, locals,
                   dirExists, current_pt, best_pt, summary_txt, savefig_calls>>

\* A new process is started with the resume flag after the engine ended the
\* previous one (spec 4.4, failure semantics).  The disk is kept; the run
\* directory matches the name suffix iff it was created.
Restart ==
    /\ pc = "failed"
    /\ error = "EngineError"
    /\ runNo < MaxRuns
    /\ runNo' = runNo + 1
    /\ resume' = TRUE
    /\ nmatch' = IF dirExists THEN 1 ELSE 0
    /\ pc' = "import"
    /\ error' = "none"
    /\ exit' = "none"
    /\ checkpoint' = Unbound
    /\ best_epoch' = 0
    /\ best_loss' = 0
    /\ configs' = <<>>
    /\ full_mname' = <<>>
    /\ UNCHANGED <<debug, patience, optim, mountExists, descend, nameArgs,
                   response, now, disk>>

Next ==
    \/ ImportLocations
    \/ ResumeLookup
    \/ FreshName
    \/ InitLoaders
    \/ CreateCheckpoint
    \/ LoopEnter
    \/ LoopExit
    \/ TrainPass
    \/ TrainRaise
    \/ TestPass
    \/ TestRaise
    \/ SaveCurrent
    \/ UpdateBest
    \/ WriteSummary
    \/ DebugBreak
    \/ NextIteration
    \/ BuildConfigs
    \/ WriteConfigs
    \/ Restart

Spec == Init /\ [][Next]_vars

\* main() is one sequential thread: whenever a next statement exists it is
\* eventually executed (every engine pass returns or raises).
FairSpec == Spec /\ WF_vars(Next)

\* The same program started from the initial states of the run-name check.
NameSpec == NameInit /\ [][Next]_vars

(***************************************************************************)
(* Properties.                                                             *)
(***************************************************************************)
\* Control is at the loop head or past the loop: every iteration that was
\* started has completed.
AtBoundary == pc \in {"loop", "configs", "dump", "done"}
\* Control is inside main() after the checkpoint was bound.
InRun == pc \in {"loop", "train", "test", "save", "best", "summary", "debug",
                 "configs", "dump"}

\* C1: in a fresh run, after every completed loop iteration each of the four
\* history lists has length checkpoint['epoch'].
C1_HistoryLength ==
    (AtBoundary /\ ~resume) =>
        /\ Len(checkpoint.train_loss_all) = checkpoint.epoch
        /\ Len(checkpoint.test_loss_all) = checkpoint.epoch
        /\ Len(checkpoint.train_rmetric_all) = checkpoint.epoch
        /\ Len(checkpoint.test_rmetric_all) = checkpoint.epoch
C1_Witness ==
    /\ pc = "loop" /\ ~resume /\ checkpoint.epoch = 2
    /\ checkpoint.test_loss_all = <<150, 40>>

\* C2 as stated: after every completed epoch of a fresh run best_loss is the
\* minimum of the evaluation losses recorded so far.
C2_BestIsMinOfHistory ==
    (AtBoundary /\ ~resume /\ checkpoint.epoch >= 1) =>
        best_loss = MinOf(checkpoint.test_loss_all)
\* What the code computes instead: the minimum of the initial loss 100 and
\* the evaluation losses recorded so far.
BestIsMinWithInitial ==
    (AtBoundary /\ ~resume /\ checkpoint.epoch >= 1) =>
        best_loss = Min2(100, MinOf(checkpoint.test_loss_all))

\* C3: best_loss never increases from one step of the run to the next, and
\* best_epoch changes only in a step in which best_loss strictly decreases.
C3_BestMonotone ==
    [][InRun =>
         /\ best_loss' <= best_loss
         /\ (best_epoch' # best_epoch => best_loss' < best_loss)]_vars
C3_Witness ==
    /\ pc = "loop" /\ checkpoint.epoch = 3
    /\ checkpoint.test_loss_all = <<50, 40, 100>>
    /\ best_epoch = 2 /\ best_loss = 40

C4_Start ==
    pc = "loop" =>
        ((pc' = "train") <=>
            (checkpoint.epoch - best_epoch <= patience /\ checkpoint.epoch < 500))
\* C4 as stated (its consequence): when a non-debug run leaves the loop after
\* an improving epoch b = best_epoch, exactly patience+1 further epochs ran.
C4_StopsAfterPatiencePlusOne ==
    (~debug /\ exit = "cond" /\ best_epoch >= 1) =>
        checkpoint.epoch - best_epoch = patience + 1
\* C4 amended: a new epoch is started exactly when, at the loop head,
\* epoch - best_epoch <= patience and epoch < 500; when a non-debug run leaves
\* the loop after an improving epoch b, exactly min(patience+1, 500-b) further
\* epochs ran, none of them improving.
C4_EarlyStop ==
    [][/\ C4_Start
       /\ (~debug /\ exit' = "cond" /\ best_epoch' >= 1) =>
             /\ checkpoint'.epoch - best_epoch' = Min2(patience + 1, 500 - best_epoch')
             /\ \A e \in (best_epoch' + 1)..(checkpoint'.epoch) :
                  checkpoint'.test_loss_all[e] >= best_loss']_vars
C4_Witness ==
    /\ ~debug /\ exit = "cond" /\ patience = 0
    /\ best_epoch = 1 /\ checkpoint.epoch = 2
    /\ checkpoint.test_loss_all = <<50, 150>>

\* C5 as stated: whenever the debug flag is set, the loop performs exactly
\* one epoch, appends one block to summary.txt and writes graphs.png once.
C5_DebugExactlyOne ==
    (debug /\ exit # "none") =>
        /\ checkpoint.epoch = 1
        /\ Len(summary_txt) = 1
        /\ savefig_calls = 1
\* C5 amended: in a fresh debug run the loop never performs more than one
\* epoch; it performs exactly one (one block of summary.txt, one graphs.png)
\* when patience >= 0, and none when patience < 0.
C5_DebugAtMostOne ==
    debug =>
        /\ checkpoint.epoch <= 1 /\ Len(summary_txt) <= 1 /\ savefig_calls <= 1
        /\ (exit # "none" /\ patience >= 0) =>
              /\ exit = "break"
              /\ checkpoint.epoch = 1
              /\ Len(checkpoint.train_loss_all) = 1
              /\ Len(checkpoint.test_loss_all) = 1
              /\ summary_txt = <<1>>
              /\ savefig_calls = 1
        /\ (exit # "none" /\ patience < 0) =>
              /\ exit = "cond"
              /\ checkpoint.epoch = 0
              /\ summary_txt = <<>>
              /\ savefig_calls = 0
C5_Witness ==
    /\ debug /\ patience = MaxPatience /\ pc = "done" /\ exit = "break"
    /\ checkpoint.epoch = 1 /\ summary_txt = <<1>>

\* C6 as stated: the final record is built and configs.json written only
\* when the loop ended because its condition became false.
C6_OnlyByCondition ==
    (configs # <<>> \/ configs_json # <<>>) => exit = "cond"
\* C6 amended: the final record is built and configs.json written only after
\* the loop has ended, by its condition or by the debug break; a run that
\* leaves the loop through the debug break builds the record and writes
\* configs.json as well.
C6_AfterLoopEitherWay ==
    /\ (configs # <<>> \/ configs_json # <<>>) => exit \in {"cond", "break"}
    /\ pc \in {"configs", "dump"} => exit \in {"cond", "break"}
    /\ (exit = "break" /\ pc \in {"dump", "done"}) => configs # <<>>
    /\ (exit = "break" /\ pc = "done") => configs_json = configs
    /\ (exit = "break") => pc \in {"configs", "dump", "done"}
C6_Witness ==
    /\ exit = "break" /\ pc = "done" /\ configs_json # <<>>
    /\ configs_json[1].best_epoch = 1

\* C7 as stated: whenever the final record is built, best_epoch - 1 is a
\* valid 0-based index into test_rmetric_all and the recorded rmetric and
\* best_loss are the evaluation metric and loss of epoch best_epoch.
C7_RmetricOfBestEpoch ==
    configs # <<>> =>
        /\ best_epoch - 1 \in 0..(Len(checkpoint.test_rmetric_all) - 1)
        /\ configs[1].rmetric = checkpoint.test_rmetric_all[best_epoch]
        /\ configs[1].best_loss = checkpoint.test_loss_all[best_epoch]

\* C8 as stated: when the engine raises during epoch n+1 after n >= 1
\* completed epochs, current.pt holds the state of epoch n, and the following
\* run with the resume flag gets through initialization with that snapshot as
\* its checkpoint.
C8_ResumeFromCurrent ==
    /\ (pc = "failed" /\ error = "EngineError" /\ checkpoint.epoch >= 2) =>
          /\ current_pt # <<>>
          /\ current_pt[1].epoch = checkpoint.epoch - 1
          /\ Len(current_pt[1].test_loss_all) = checkpoint.epoch - 1
    /\ (runNo >= 2 /\ resume /\ mountExists /\ current_pt # <<>>
          /\ pc \notin {"import", "name"}) =>
          /\ pc # "failed"
          /\ checkpoint = current_pt[1]

\* C9 as stated: a run with the resume flag and exactly one matching run
\* directory completes initialization without error.
C9_ResumeInitializes ==
    (resume /\ nmatch = 1 /\ mountExists /\ OptimSupported(optim)) =>
        pc # "failed"

\* C10: every completed epoch overwrites current.pt with the checkpoint of
\* that epoch; best.pt is overwritten in the epoch iff its evaluation loss is
\* strictly less than best_loss as it was before the epoch; otherwise (an
\* equal loss included) best.pt, best_epoch and best_loss are unchanged.
C10_SnapshotPersistence ==
    [][/\ pc = "save" => current_pt' = <<checkpoint>>
       /\ (pc' = "loop" /\ pc = "debug") =>
             (current_pt # <<>> /\ current_pt[1].epoch = checkpoint.epoch)
       /\ pc = "best" =>
             /\ (best_pt' # best_pt) <=> (checkpoint.loss < best_loss)
             /\ (checkpoint.loss < best_loss) =>
                   /\ best_pt' = <<checkpoint>>
                   /\ best_loss' = checkpoint.loss
                   /\ best_epoch' = checkpoint.epoch
             /\ (checkpoint.loss >= best_loss) =>
                   UNCHANGED <<best_pt, best_epoch, best_loss>>
       /\ pc # "best" => best_pt' = best_pt]_vars
C10_Witness ==
    /\ pc = "summary" /\ checkpoint.epoch = 2 /\ checkpoint.loss = best_loss
    /\ best_epoch = 1 /\ best_pt # <<>> /\ best_pt[1].epoch = 1
    /\ current_pt # <<>> /\ current_pt[1].epoch = 2

\* No file of the run directory exists.
NoFiles ==
    /\ ~dirExists /\ current_pt = <<>> /\ best_pt = <<>>
    /\ summary_txt = <<>> /\ savefig_calls = 0 /\ configs_json = <<>>

\* C11 as stated: with an optimizer name other than 'sgd' and 'adam' the
\* run, fresh or resumed, ends with the unsupported-optimizer error.
C11_UnsupportedAlwaysValueError ==
    (~OptimSupported(optim) /\ mountExists /\ pc = "failed") =>
        error = "ValueError"
\* C11 amended: with an optimizer name other than 'sgd' and 'adam' no epoch
\* runs and no file is written; a fresh run that got through the import
\* fails with the unsupported-optimizer error at checkpoint construction (a
\* resumed run never validates the optimizer name).
C11_UnsupportedOptimizer ==
    ~(optim = "sgd" \/ optim = "adam") =>
        /\ pc \in {"import", "name", "loaders", "optim", "failed"}
        /\ checkpoint = Unbound /\ configs = <<>> /\ NoFiles
        /\ (~resume /\ mountExists /\ pc = "failed") => error = "ValueError"
        /\ (~resume /\ mountExists /\ pc # "failed") => error = "none"
        /\ error = "ValueError" => ~resume
C11_Witness ==
    /\ optim = "rmsprop" /\ ~resume /\ pc = "failed" /\ error = "ValueError"
    /\ checkpoint = Unbound /\ NoFiles
\* The epochs completed since the best one; none of them improved on
\* best_loss.
Stale == checkpoint.epoch - best_epoch
StaleEpochsDidNotImprove ==
    \A e \in (best_epoch + 1)..(checkpoint.epoch) :
        checkpoint.test_loss_all[e] >= best_loss

\* C12 as stated: in a non-debug run the number of consecutive completed
\* epochs without a strict improvement never exceeds patience.
C12_StaleAtMostPatience ==
    (~debug /\ ~resume /\ patience >= 0 /\ AtBoundary) =>
        (StaleEpochsDidNotImprove /\ Stale <= patience)
\* C12 amended: in a non-debug run with patience >= 0 the number of
\* consecutive completed epochs without a strict improvement never exceeds
\* patience + 1, and training stops as soon as it exceeds patience.
C12_StaleAtMostPatiencePlusOne ==
    (~debug /\ ~resume /\ patience >= 0 /\ AtBoundary) =>
        /\ StaleEpochsDidNotImprove
        /\ Stale <= patience + 1
        /\ (pc = "loop" /\ Stale > patience) => ~ENABLED LoopEnter
        /\ (exit = "cond" /\ checkpoint.epoch < 500) => Stale = patience + 1
C12_Witness ==
    /\ ~debug /\ patience = 1 /\ exit = "cond" /\ pc = "done"
    /\ checkpoint.epoch = 3 /\ best_epoch = 1
    /\ checkpoint.test_loss_all = <<50, 50, 100>>
\* C13: for every patience value and every sequence of evaluation losses,
\* the always-improving one included, the loop of a fresh run eventually
\* ends (by its condition, i.e. patience exhaustion or the epoch cap, by the
\* debug break, or because the engine raised), and checkpoint['epoch'] never
\* exceeds 500.
C13_TerminatesWithinCap ==
    /\ [](checkpoint.epoch <= 500)
    /\ [](exit = "cond" => (Stale > patience \/ checkpoint.epoch = 500))
    /\ [](exit = "break" => debug)
    /\ (pc = "loop" /\ ~resume) ~> (exit # "none" \/ pc = "failed")
C13_Witness ==
    /\ exit = "cond" /\ patience = MaxPatience /\ descend = 500
    /\ checkpoint.epoch = 500 /\ best_epoch = 500 /\ best_loss = 100 - 500
\* C14: a run with the resume flag for which zero or more than one run
\* directory matches fails during initialization, before any loader or
\* model is built, any epoch runs or any file is written.
C14_ResumeTargetValidation ==
    (resume /\ nmatch # 1) =>
        /\ pc \in {"import", "name", "failed"}
        /\ pc = "failed" => error \in {"FileNotFoundError", "TypeError"}
        /\ (pc = "failed" /\ mountExists) => error = "TypeError"
        /\ checkpoint = Unbound /\ configs = <<>> /\ NoFiles
C14_Witness ==
    /\ resume /\ nmatch = 2 /\ pc = "failed" /\ error = "TypeError"
    /\ checkpoint = Unbound /\ NoFiles

\* C16: when the mount path does not exist the process fails at import
\* time, before a run name is generated, a loader or model is constructed
\* or a file is written.
C16_MountPrecondition ==
    ~mountExists =>
        /\ pc \in {"import", "failed"}
        /\ pc = "failed" => error = "FileNotFoundError"
        /\ pc = "import" => error = "none"
        /\ checkpoint = Unbound /\ configs = <<>> /\ NoFiles
        /\ full_mname = <<>>
C16_Witness ==
    /\ ~mountExists /\ ~resume /\ pc = "failed" /\ error = "FileNotFoundError"
    /\ checkpoint = Unbound /\ NoFiles
\* C17 as stated: when the terminal action runs with best_epoch = 0 the
\* lookup test_rmetric_all[best_epoch - 1] fails, so no record is built and
\* configs.json is not written.
C17_NeverImprovingFails ==
    (best_epoch = 0 /\ exit # "none") =>
        (configs = <<>> /\ configs_json = <<>>)
\* C17 amended: when the terminal action runs with best_epoch = 0, the
\* lookup test_rmetric_all[-1] fails (IndexError, no record, no configs.json)
\* only if no epoch was completed; after at least one completed epoch it
\* yields the metric of the last epoch, and the record is built with
\* best_epoch = 0 and best_loss = 100 and written to configs.json.
C17_NeverImprovingLookup ==
    (best_epoch = 0 /\ exit # "none" /\ pc # "configs") =>
        /\ (checkpoint.epoch = 0) =>
              (pc = "failed" /\ error = "IndexError"
                 /\ configs = <<>> /\ configs_json = <<>>)
        /\ (checkpoint.epoch >= 1) =>
              /\ pc \in {"dump", "done"}
              /\ configs = <<[best_epoch |-> 0, best_loss |-> 100,
                              rmetric |-> checkpoint.test_rmetric_all[checkpoint.epoch]]>>
              /\ pc = "done" => configs_json = configs
C17_Witness ==
    /\ best_epoch = 0 /\ pc = "done" /\ ~debug /\ patience = 1
    /\ checkpoint.epoch = 2 /\ checkpoint.test_loss_all = <<150, 100>>
    /\ checkpoint.test_rmetric_all = <<0, 1>>
    /\ configs_json = <<[best_epoch |-> 0, best_loss |-> 100, rmetric |-> 1]>>

\* A stored snapshot is the state at the end of its epoch.
SnapshotConsistent(snap) ==
    /\ snap.epoch >= 1
    /\ Len(snap.train_loss_all) = snap.epoch
    /\ Len(snap.test_loss_all) = snap.epoch
    /\ Len(snap.train_rmetric_all) = snap.epoch
    /\ Len(snap.test_rmetric_all) = snap.epoch
    /\ snap.loss = snap.test_loss_all[snap.epoch]
\* C18: in a fresh run every snapshot in current.pt or best.pt has all four
\* histories of length equal to its stored epoch and a stored loss equal to
\* the last element of its test_loss_all; and when best.pt exists its stored
\* epoch and loss equal best_epoch and best_loss.
C18_SnapshotConsistency ==
    ~resume =>
        /\ current_pt # <<>> => SnapshotConsistent(current_pt[1])
        /\ best_pt # <<>> =>
              /\ SnapshotConsistent(best_pt[1])
              /\ best_pt[1].epoch = best_epoch
              /\ best_pt[1].loss = best_loss
        /\ (best_pt = <<>> /\ InRun) => best_epoch = 0
C18_Witness ==
    /\ ~resume /\ pc = "loop" /\ checkpoint.epoch = 2
    /\ current_pt # <<>> /\ current_pt[1].epoch = 2 /\ current_pt[1].loss = 50
    /\ best_pt # <<>> /\ best_pt[1].epoch = 1 /\ best_pt[1].loss = 40
    /\ best_pt[1].train_loss_all = <<70>>

\* C19: at every loop-iteration boundary of a run with patience >= 0,
\* 0 <= best_epoch <= epoch and epoch - best_epoch <= patience + 1; and when
\* best_epoch >= 1 in a fresh run, best_loss = test_loss_all[best_epoch - 1]
\* (0-based).
C19_BoundedStaleness ==
    (AtBoundary /\ patience >= 0) =>
        /\ 0 <= best_epoch /\ best_epoch <= checkpoint.epoch
        /\ checkpoint.epoch - best_epoch <= patience + 1
        /\ (best_epoch >= 1 /\ ~resume) =>
              best_loss = PyIndex(checkpoint.test_loss_all, best_epoch - 1)
C19_Witness ==
    /\ pc = "loop" /\ patience = 1 /\ ~debug
    /\ checkpoint.epoch = 3 /\ best_epoch = 1 /\ best_loss = 40
    /\ checkpoint.test_loss_all = <<40, 50, 100>>
\* The positions at which text t occurs in text s.
Occurrences(s, t) ==
    {p \in 1..(Len(s) - Len(t) + 1) : SubSeq(s, p, p + Len(t) - 1) = t}
Contains(s, t) == Occurrences(s, t) # {}
RECURSIVE InOrderFrom(_, _, _)
\* The texts of the sequence ts occur in s one after the other, from
\* position from on.
InOrderFrom(s, ts, from) ==
    IF ts = <<>> THEN TRUE
    ELSE \E p \in Occurrences(s, Head(ts)) :
            p >= from /\ InOrderFrom(s, Tail(ts), p + Len(Head(ts)))
\* The tags of the enabled options, in the order of train.py:58-65.
EnabledTags ==
    (IF debug THEN <<DebugTag>> ELSE <<>>)
    \o (IF nameArgs.pretrained THEN <<PreTag>> ELSE <<>>)
    \o (IF nameArgs.balanced THEN <<BalTag>> ELSE <<>>)
    \o (IF nameArgs.wildcat THEN <<WildcatTag>> ELSE <<>>)
\* None of the free-text arguments contains the word w.
WordFree(w) ==
    \A t \in {nameArgs.data, nameArgs.col_name, nameArgs.network,
               Mname(response, now), <<optim>>} :
        \A i \in 1..Len(t) : t[i] # w

\* C15 as stated: the run name contains the tag of every enabled option and
\* the tag of no disabled option.
C15_TagsIffEnabled ==
    full_mname # <<>> =>
        /\ Contains(full_mname, DebugTag) <=> debug
        /\ Contains(full_mname, PreTag) <=> nameArgs.pretrained
        /\ Contains(full_mname, BalTag) <=> nameArgs.balanced
        /\ Contains(full_mname, WildcatTag) <=> nameArgs.wildcat
\* C15 amended: the run name contains the tag of every enabled option, in
\* the fixed order debug, pretrained, balanced, wildcat; it contains the tag
\* of a disabled option only if one of the free-text arguments (data,
\* col_name, optim, network, the name token) contains that tag's word.
C15_RunNameTags ==
    full_mname # <<>> =>
        /\ InOrderFrom(full_mname, EnabledTags, 1)
        /\ debug => SubSeq(full_mname, 1, Len(DebugTag)) = DebugTag
        /\ (~debug /\ WordFree("debug")) => ~Contains(full_mname, DebugTag)
        /\ (~nameArgs.pretrained /\ WordFree("pre")) => ~Contains(full_mname, PreTag)
        /\ (~nameArgs.balanced /\ WordFree("bal")) => ~Contains(full_mname, BalTag)
        /\ (~nameArgs.wildcat /\ WordFree("wildcat")) =>
              ~Contains(full_mname, <<"_", "wildcat">>)
C15_Witness ==
    /\ pc = "loaders" /\ debug /\ nameArgs.pretrained /\ nameArgs.balanced
    /\ ~nameArgs.wildcat /\ nameArgs.data = <<"chest">>
    /\ full_mname = <<"debug", "_", "chest", "_", "label", "_", "lr", "0.001",
                      "_", "bs", "64", "_", "adam", "_", "pre", "_", "bal",
                      "_", "resnet", "18", "_", "2", "9", "_", "1", "0",
                      "_", "0", "5", "_", "3", "5", "_", "4", "6">>
====
